---- MODULE Spec2Model ----
(***************************************************************************)
(* A model of autoortho.py: the TileCacher (get_quick, get_best,           *)
(* get_deadline, get_background and the adaptive zoom controller) running  *)
(* on several threads against the tile renderer (getortho.GetOrtho).       *)
(*                                                                         *)
(* A cache artifact <cache_dir>/<row>_<col>_<maptype>_<z>.dds of the one   *)
(* tile (row, col, maptype) the threads ask for is identified by its zoom  *)
(* level z.  Times are integers: retrieval times in tenths of a second,    *)
(* deadlines and waits in ticks.                                           *)
(***************************************************************************)
EXTENDS Integers, Sequences, FiniteSets, TLC

\* ---------------------------------------------------------------- bounds
NThreads == 2          \* threads, each making one cache call, concurrently
CtlCalls == 6          \* cache calls of the one thread of SpecCtl
MountCalls == 2        \* filesystem callbacks on the tile path in SpecMount
MaxDds == 9            \* the most dds paths a scenery file refers to in SpecDsf
ReqZoom == 16          \* the zoom level of the requested tile
DeadlineTicks == 2     \* the deadline D of get_deadline, in ticks
\* the most dds files absent or empty, plus cache files present or in
\* production, when DSF.open runs
MaxInputs == 2

Threads == 1..NThreads
\* get_quick walks ReqZoom .. ReqZoom-3 (default min_zoom, line 196)
Files == (ReqZoom - 3)..ReqZoom
\* retrieval times of a renderer call, in tenths of a second: 0.1 s, 3 s, 11 s
TileTimes == {1, 30, 110}
\* the retrieval times of the concurrent specifications: a slow renderer
SlowTimes == {110}
\* the retrieval times of the workers of DSF.open: a fast renderer
DsfTimes == {1}
\* the cache files that may be in .cache, or in production by the renderer's
\* background workers, when DSF.open starts: the first tile's top and
\* lowest level
WarmFiles == {<<1, ReqZoom>>, <<1, ReqZoom - 3>>}
NoFile == 0

\* FUSE(..., nothreads=True): the filesystem callbacks run on one thread
FuseThread == 1
\* FlightFollower's class attributes lat, lon, alt, hdg, spd before a packet
Placeholder == -1
\* the packets the telemetry source sends: the aircraft at 50 N 10 E
Packets ==
  { [lat |-> 50, lon |-> 10, alt |-> 3000, hdg |-> 0, spd |-> 450],
    [lat |-> 50, lon |-> 10, alt |-> 3000, hdg |-> 0, spd |-> 300],
    [lat |-> 50, lon |-> 10, alt |-> 5000, hdg |-> 0, spd |-> 300],
    [lat |-> 50, lon |-> 10, alt |-> 3000, hdg |-> 90, spd |-> 1],
    [lat |-> 50, lon |-> 10, alt |-> 3000, hdg |-> 90, spd |-> 100] }
\* the packets of the specification of open after getattr
FewPackets ==
  { [lat |-> 50, lon |-> 10, alt |-> 3000, hdg |-> 0, spd |-> 450],
    [lat |-> 50, lon |-> 10, alt |-> 3000, hdg |-> 90, spd |-> 1] }
\* no cache call
NoCall ==
  [op |-> "none", quick_zoom |-> 0, min_zoom |-> 0, deadline |-> 0, priority |-> 0]
\* nothing handed to os.lstat / os.open yet
NoOpen == <<"none", NoFile>>

VARIABLES
  \* ---- shared state
  present,      \* artifacts on disk (os.path.exists)
  active,       \* go.active_tiles, the Active Set
  bg,           \* background productions enqueued and not finished, per file
  lock,         \* owner of go.tile_condition's lock, 0 when free
  tile_times,   \* TileCacher.tile_times, deque(maxlen=5)
  target_zoom,  \* TileCacher.target_zoom
  \* ---- per thread
  pc,           \* position in the cache call
  kind,         \* the cache operation the thread called
  budget,       \* calls the thread may still start
  cf,           \* local cache_file
  z,            \* get_quick's loop variable
  minz,         \* get_quick's min_zoom
  dmin,         \* get_deadline's min_zoom argument
  ret,          \* the returned path (NoFile: none)
  exc,          \* the exception that left the cache call, "none" if none
  ttime,        \* local tile_time
  tzl,          \* the value of target_zoom loaded by an in-place update
  delta,        \* -1 or +1: the in-place update under way
  elapsed,      \* ticks since get_deadline read start_time, counted up to D
  curWait,      \* ticks spent in the current tile_condition.wait
  notified,     \* woken by notify_all
  reached,      \* local deadline_reached
  \* ---- history
  waited,       \* ticks spent in tile_condition.wait by the current get_deadline
  walkLog,      \* the levels the walk under way checked: <<level, present, active>>
  quickCalls,   \* number of get_quick_tile calls made, per outfile
  overwrote,    \* outfiles that existed when get_quick_tile was called
  dupEnqueue,   \* files get_background enqueued while active or present
  \* ---- FlightFollower
  connected,    \* FlightFollower.connected
  lat, lon,     \* FlightFollower.lat, .lon, in degrees
  alt, hdg, spd,  \* FlightFollower.alt, .hdg and .spd
  fpc,          \* position of the follower thread in its loop
  pkt,          \* the decoded packet the follower is publishing
  \* ---- AutoOrtho, the mount adapter, serving one tile path
  tile,         \* <<col, row>> of the tile the path names
  maptype,      \* the maptype the path names
  caller,       \* the callback under way on the FUSE thread, "none" if none
  call,         \* the cache call the callback made, NoCall if none
  path_dict,    \* AutoOrtho.path_dict[path]: the Path Map entry, NoFile if none
  opened,       \* what the last callback handed to os.lstat / os.open
  px, py,       \* _fetch_dds' locals x and y, the aircraft's tile
  facing_tile,  \* _fetch_dds' local facing_tile
  torn,         \* a flight value changed while _fetch_dds was reading them
  \* ---- DSF.open
  dsfN,         \* num_dds, the number of deduplicated dds paths
  needs,        \* the paths whose target file is absent or has size 0
  dsfPc,        \* position of DSF.open
  chunks,       \* chunked_list, the paths as indexes 1 .. num_dds
  wpos,         \* per worker thread: paths of its chunk it has gone through
  wstat,        \* per worker thread: "running", "ended" or "died"
  wpc,          \* per worker thread: its position in get_dds / get_quick
  wz,           \* per worker thread: get_quick's loop variable z
  wtime,        \* per worker thread: get_quick's local tile_time
  wtzl,         \* per worker thread: the target_zoom loaded by the update
  wdelta,       \* per worker thread: -1 or +1, the update under way
  pkey,         \* per dds path: the tile (row, col, maptype) its name gives,
                \* numbered by the first path that names it
  dcache,       \* the cache files <<tile, level>> present in .cache
  dactive,      \* the cache files <<tile, level>> in the renderer's Active Set
  dbg,          \* the cache files a background production is writing
  fetched       \* the paths for which get_quick has been called and returned

shared == <<present, active, bg, lock, tile_times, target_zoom>>
locals == <<pc, kind, budget, cf, z, minz, dmin, ret, exc, ttime, tzl, delta,
            elapsed, curWait, notified, reached>>
history == <<waited, walkLog, quickCalls, overwrote, dupEnqueue>>
flight == <<connected, lat, lon, alt, hdg, spd, fpc, pkt>>
adapter == <<tile, maptype, caller, call, path_dict, opened>>
polLocals == <<px, py, facing_tile, torn>>
mount == <<adapter, polLocals>>
wloc == <<wpc, wz, wtime, wtzl, wdelta>>
dfiles == <<dcache, dactive, dbg>>
dsf == <<dsfN, needs, pkey, dsfPc, chunks, wpos, wstat, wloc, dfiles, fetched>>
ext == <<flight, mount, dsf>>
vars == <<shared, locals, history, ext>>

\* ------------------------------------------------------- pure functions
RECURSIVE SumSeq(_)
SumSeq(s) == IF s = <<>> THEN 0 ELSE Head(s) + SumSeq(Tail(s))

\* tile_times.append on a deque(maxlen=5): the oldest entry is dropped
PushTime(w, d) == IF Len(w) < 5 THEN Append(w, d) ELSE Append(Tail(w), d)

\* avg_time = sum(self.tile_times)/5, in tenths of a second, times 5
AvgTimes5(w) == SumSeq(w)

\* avg_time > 2
GoingSlow(w) == AvgTimes5(w) > 5 * 20

\* avg_time <= 0.3
GoingFast(w) == AvgTimes5(w) <= 5 * 3

\* if self.target_zoom >= 12
MayDecrement(tz) == tz >= 12

\* if self.target_zoom < 18
MayIncrement(tz) == tz < 18

\* lines 236, 240: the branch the average selects: -1 (slow), +1 (fast), 0
Trend(w) == IF GoingSlow(w) THEN -1 ELSE IF GoingFast(w) THEN 1 ELSE 0

\* lines 237, 241: the guard of the branch, on the value of target_zoom
GuardPasses(d, tz) == IF d = -1 THEN MayDecrement(tz) ELSE MayIncrement(tz)

\* line 252: min_zoom = min(zoom, max(zoom-2, self.target_zoom))
TargetMinZoom(zoom, tz) ==
  LET m == IF zoom - 2 >= tz THEN zoom - 2 ELSE tz
  IN IF zoom <= m THEN zoom ELSE m

\* if not min_zoom: min_zoom = zoom - 3
QuickMinZoom(zoom, min_zoom) == IF min_zoom = 0 THEN zoom - 3 ELSE min_zoom

\* the first level of range(zoom, min_zoom-1, -1)
WalkFirst(zoom, min_zoom) == zoom

\* the level after lvl in range(zoom, min_zoom-1, -1)
WalkNext(lvl) == lvl - 1

\* the with-block of the walk at one level: "skip" (active), "hit", "miss"
WalkCheck(f, act, pres) ==
  IF f \in act THEN "skip" ELSE IF f \in pres THEN "hit" ELSE "miss"

\* get_deadline's target: quick_zoom if nonzero, else zoom
DeadlineFile(zoom, quick_zoom) == IF quick_zoom # 0 THEN quick_zoom ELSE zoom

\* while cache_file in active_tiles or not os.path.exists(cache_file)
DeadlineMustWait(f, act, pres) == f \in act \/ f \notin pres

\* (time.time() - start_time) > deadline.  The ticks count the time spent
\* waiting; the code between the two clock readings runs for a nonzero time
\* on top of it, so a real elapsed time exceeds D exactly when D whole ticks
\* have passed.
DeadlineBreached(e, d) == e >= d

\* notify_all: every thread waiting on the tile condition is woken
NotifyAll == [t \in Threads |-> IF pc[t] = "d_wait" THEN TRUE ELSE notified[t]]

RECURSIVE SumOver(_, _)
SumOver(S, cnt) ==
  IF S = {} THEN 0
  ELSE LET x == CHOOSE y \in S : TRUE IN cnt[x] + SumOver(S \ {x}, cnt)

\* renderer calls for file f that are in flight: blocking calls of cache
\* threads and background productions
InFlight(f) ==
  Cardinality({t \in Threads : pc[t] \in {"q_render", "b_render"} /\ cf[t] = f})
    + bg[f]

\* ------------------------------------------------------------ initial states
\* lines 40-45: the class attributes
InitFlight ==
  /\ connected = FALSE
  /\ lat = Placeholder
  /\ lon = Placeholder
  /\ alt = Placeholder
  /\ hdg = Placeholder
  /\ spd = Placeholder
  /\ fpc = "recv"
  /\ pkt = [lat |-> Placeholder, lon |-> Placeholder, alt |-> Placeholder,
            hdg |-> Placeholder, spd |-> Placeholder]

\* the mount adapter before any callback, lines 332-334
InitAdapter ==
  /\ caller = "none"
  /\ call = NoCall
  /\ path_dict = NoFile
  /\ opened = NoOpen
  /\ px = 0
  /\ py = 0
  /\ facing_tile = FALSE
  /\ torn = FALSE

\* no scenery file is being opened
InitDsfIdle ==
  /\ dsfN = 0
  /\ needs = {}
  /\ pkey = <<>>
  /\ dsfPc = "idle"
  /\ chunks = <<>>
  /\ wpos = <<>>
  /\ wstat = <<>>
  /\ wpc = <<>>
  /\ wz = <<>>
  /\ wtime = <<>>
  /\ wtzl = <<>>
  /\ wdelta = <<>>
  /\ dcache = {}
  /\ dactive = {}
  /\ dbg = {}
  /\ fetched = {}

\* the cache called directly: no telemetry, no filesystem callback
InitExt ==
  /\ InitFlight
  /\ InitAdapter
  /\ InitDsfIdle
  /\ tile = <<0, 0>>
  /\ maptype = "BI"

InitLocals ==
  /\ pc = [t \in Threads |-> "idle"]
  /\ kind = [t \in Threads |-> "none"]
  /\ cf = [t \in Threads |-> NoFile]
  /\ z = [t \in Threads |-> 0]
  /\ minz = [t \in Threads |-> 0]
  /\ dmin = [t \in Threads |-> 0]
  /\ ret = [t \in Threads |-> NoFile]
  /\ exc = [t \in Threads |-> "none"]
  /\ ttime = [t \in Threads |-> 0]
  /\ tzl = [t \in Threads |-> 0]
  /\ delta = [t \in Threads |-> 0]
  /\ elapsed = [t \in Threads |-> 0]
  /\ curWait = [t \in Threads |-> 0]
  /\ notified = [t \in Threads |-> FALSE]
  /\ reached = [t \in Threads |-> FALSE]
  /\ waited = [t \in Threads |-> 0]
  /\ walkLog = [t \in Threads |-> <<>>]

InitShared ==
  /\ active = {}
  /\ bg = [f \in Files |-> 0]
  /\ lock = 0
  /\ tile_times = <<>>
  /\ target_zoom = 16
  /\ quickCalls = [f \in Files |-> 0]
  /\ overwrote = {}
  /\ dupEnqueue = {}

\* the cache directory holds any artifacts of earlier runs
Init ==
  /\ InitLocals
  /\ InitShared
  /\ present \in SUBSET Files
  /\ budget = [t \in Threads |-> 1]
  /\ InitExt

\* a thread with calls left and no call under way
CanStart(t) == pc[t] = "idle" /\ budget[t] > 0

\* what every cache call sets on entry
EnterCall(t, k) ==
  /\ kind' = [kind EXCEPT ![t] = k]
  /\ ret' = [ret EXCEPT ![t] = NoFile]
  /\ exc' = [exc EXCEPT ![t] = "none"]

\* a cache call made by a thread of its own: one of its calls is used up
Enter(t, k) ==
  /\ EnterCall(t, k)
  /\ budget' = [budget EXCEPT ![t] = @ - 1]

\* ------------------------------------------------------------- get_quick
\* lines 194-198: the entry of get_quick(row, col, map_type, zoom, min_zoom)
EnterQuick(t, zoom, min_zoom) ==
  /\ minz' = [minz EXCEPT ![t] = QuickMinZoom(zoom, min_zoom)]
  /\ z' = [z EXCEPT ![t] = WalkFirst(zoom, QuickMinZoom(zoom, min_zoom))]
  /\ walkLog' = [walkLog EXCEPT ![t] = <<>>]
  /\ pc' = [pc EXCEPT ![t] = "q_walk"]

\* the loop of lines 199-213 goes on to the next level: not after a hit
\* (break), not after the last level
WalkContinuesNoBreak(r, lvl, mn) == lvl > mn
WalkContinues(r, lvl, mn) == r # "hit" /\ lvl > mn

\* lines 215, 248: after the walk, `if not found` guards the retrieval and the
\* controller; a hit returns cache_file
AfterWalkFeedsController(found) == IF found THEN "q_ctl" ELSE "q_miss"
AfterWalk(found) == IF found THEN "done" ELSE "q_miss"

\* a caller calls get_quick(row, col, maptype, zoom) with the defaults
StartQuick(t) ==
  /\ CanStart(t)
  /\ Enter(t, "get_quick")
  /\ EnterQuick(t, ReqZoom, 0)
  /\ UNCHANGED <<shared, cf, dmin, ttime, tzl, delta, elapsed, curWait,
                 notified, reached, waited, quickCalls, overwrote, dupEnqueue>>
  /\ UNCHANGED ext

\* lines 250-255: get_target(row, col, map_type, zoom) reads target_zoom and
\* calls get_quick(row, col, map_type, zoom, min_zoom)
StartTarget(t) ==
  /\ CanStart(t)
  /\ Enter(t, "get_target")
  /\ EnterQuick(t, ReqZoom, TargetMinZoom(ReqZoom, target_zoom))
  /\ UNCHANGED <<shared, cf, dmin, ttime, tzl, delta, elapsed, curWait,
                 notified, reached, waited, quickCalls, overwrote, dupEnqueue>>
  /\ UNCHANGED ext

\* lines 199-213: one iteration of the zoom walk, its with-block as one step
QuickWalk(t) ==
  /\ pc[t] = "q_walk"
  /\ lock = 0
  /\ LET r == WalkCheck(z[t], active, present) IN
       /\ cf' = [cf EXCEPT ![t] = z[t]]
       /\ walkLog' = [walkLog EXCEPT
            ![t] = Append(@, <<z[t], z[t] \in present, z[t] \in active>>)]
       /\ IF WalkContinues(r, z[t], minz[t])
            THEN /\ z' = [z EXCEPT ![t] = WalkNext(z[t])]
                 /\ UNCHANGED <<pc, ret>>
            ELSE /\ z' = z
                 /\ pc' = [pc EXCEPT ![t] = AfterWalk(r = "hit")]
                 /\ ret' = IF r = "hit" THEN [ret EXCEPT ![t] = z[t]] ELSE ret
  /\ UNCHANGED <<shared, kind, budget, minz, dmin, exc, ttime, tzl, delta,
                 elapsed, curWait, notified, reached, waited, quickCalls,
                 overwrote, dupEnqueue>>
  /\ UNCHANGED ext

\* lines 215-218: not found; the test of the while loop, made without the lock
QuickCheckActive(t) ==
  /\ pc[t] = "q_miss"
  /\ cf' = [cf EXCEPT ![t] = minz[t]]
  /\ pc' = [pc EXCEPT ![t] = IF minz[t] \in active THEN "q_wait" ELSE "q_emit"]
  /\ walkLog' = [walkLog EXCEPT ![t] = <<>>]
  /\ UNCHANGED <<shared, kind, budget, z, minz, dmin, ret, exc, ttime, tzl,
                 delta, elapsed, curWait, notified, reached, waited,
                 quickCalls, overwrote, dupEnqueue>>
  /\ UNCHANGED ext

\* line 220: tile_condition.wait() by a thread that does not hold the
\* condition's lock raises RuntimeError, which leaves get_quick
QuickWait(t) ==
  /\ pc[t] = "q_wait"
  /\ lock # t
  /\ pc' = [pc EXCEPT ![t] = "raised"]
  /\ exc' = [exc EXCEPT ![t] = "RuntimeError"]
  /\ UNCHANGED <<shared, kind, budget, cf, z, minz, dmin, ret, ttime, tzl,
                 delta, elapsed, curWait, notified, reached, history>>
  /\ UNCHANGED ext

\* lines 225-228: the call of go.get_quick_tile(outfile=cache_file); the
\* renderer marks the key active before it works
QuickEmit(t) ==
  /\ pc[t] = "q_emit"
  /\ lock = 0
  /\ active' = active \cup {cf[t]}
  /\ quickCalls' = [quickCalls EXCEPT ![cf[t]] = @ + 1]
  /\ overwrote' = IF cf[t] \in present THEN overwrote \cup {cf[t]} ELSE overwrote
  /\ pc' = [pc EXCEPT ![t] = "q_render"]
  /\ UNCHANGED <<present, bg, lock, tile_times, target_zoom, kind, budget, cf,
                 z, minz, dmin, ret, exc, ttime, tzl, delta, elapsed, curWait,
                 notified, reached, waited, walkLog, dupEnqueue>>
  /\ UNCHANGED ext

\* get_quick_tile returns after d tenths of a second: the artifact is written,
\* the key leaves the Active Set, the condition is broadcast; lines 231-232
QuickRenderDone(t, d) ==
  /\ pc[t] = "q_render"
  /\ lock = 0
  /\ ttime' = [ttime EXCEPT ![t] = d]
  /\ present' = present \cup {cf[t]}
  /\ active' = active \ {cf[t]}
  /\ notified' = NotifyAll
  /\ pc' = [pc EXCEPT ![t] = "q_ctl"]
  /\ UNCHANGED <<bg, lock, tile_times, target_zoom, kind, budget, cf, z, minz,
                 dmin, ret, exc, tzl, delta, elapsed, curWait, reached, history>>
  /\ UNCHANGED ext

\* get_quick_tile fails: no artifact, the key leaves the Active Set, and the
\* exception leaves get_quick, which has no handler
QuickRenderFail(t) ==
  /\ pc[t] = "q_render"
  /\ lock = 0
  /\ active' = active \ {cf[t]}
  /\ notified' = NotifyAll
  /\ pc' = [pc EXCEPT ![t] = "raised"]
  /\ exc' = [exc EXCEPT ![t] = "RendererError"]
  /\ UNCHANGED <<present, bg, lock, tile_times, target_zoom, kind, budget, cf,
                 z, minz, dmin, ret, ttime, tzl, delta, elapsed, curWait,
                 reached, history>>
  /\ UNCHANGED ext

\* line 234: self.tile_times.append(tile_time)
QuickCtl(t) ==
  /\ pc[t] = "q_ctl"
  /\ tile_times' = PushTime(tile_times, ttime[t])
  /\ pc' = [pc EXCEPT ![t] = "q_avg"]
  /\ UNCHANGED <<present, active, bg, lock, target_zoom, kind, budget, cf, z,
                 minz, dmin, ret, exc, ttime, tzl, delta, elapsed, curWait,
                 notified, reached, history>>
  /\ UNCHANGED ext

\* lines 235-236, 240, 244-248: the window is summed and the average compared;
\* an average in between returns cache_file
QuickCtlAvg(t) ==
  /\ pc[t] = "q_avg"
  /\ delta' = [delta EXCEPT ![t] = Trend(tile_times)]
  /\ IF Trend(tile_times) = 0
       THEN /\ pc' = [pc EXCEPT ![t] = "done"]
            /\ ret' = [ret EXCEPT ![t] = cf[t]]
       ELSE /\ pc' = [pc EXCEPT ![t] = "q_guard"]
            /\ ret' = ret
  /\ UNCHANGED <<shared, kind, budget, cf, z, minz, dmin, exc, ttime, tzl,
                 elapsed, curWait, notified, reached, history>>
  /\ UNCHANGED ext

\* lines 237, 241: the guard reads target_zoom; a guard that fails returns
\* cache_file (248)
QuickCtlGuard(t) ==
  /\ pc[t] = "q_guard"
  /\ IF GuardPasses(delta[t], target_zoom)
       THEN /\ pc' = [pc EXCEPT ![t] = "q_load"]
            /\ UNCHANGED <<ret, delta>>
       ELSE /\ pc' = [pc EXCEPT ![t] = "done"]
            /\ ret' = [ret EXCEPT ![t] = cf[t]]
            /\ delta' = [delta EXCEPT ![t] = 0]
  /\ UNCHANGED <<shared, kind, budget, cf, z, minz, dmin, exc, ttime, tzl,
                 elapsed, curWait, notified, reached, history>>
  /\ UNCHANGED ext

\* lines 238, 242: self.target_zoom -= 1 / += 1 reads the attribute ...
QuickCtlLoad(t) ==
  /\ pc[t] = "q_load"
  /\ tzl' = [tzl EXCEPT ![t] = target_zoom]
  /\ pc' = [pc EXCEPT ![t] = "q_store"]
  /\ UNCHANGED <<shared, kind, budget, cf, z, minz, dmin, ret, exc, ttime,
                 delta, elapsed, curWait, notified, reached, history>>
  /\ UNCHANGED ext

\* ... and stores the new value; then get_quick returns cache_file (248)
QuickCtlStore(t) ==
  /\ pc[t] = "q_store"
  /\ target_zoom' = tzl[t] + delta[t]
  /\ pc' = [pc EXCEPT ![t] = "done"]
  /\ ret' = [ret EXCEPT ![t] = cf[t]]
  /\ UNCHANGED <<present, active, bg, lock, tile_times, kind, budget, cf, z,
                 minz, dmin, exc, ttime, tzl, delta, elapsed, curWait,
                 notified, reached, history>>
  /\ UNCHANGED ext

\* -------------------------------------------------------- get_background
\* line 263: get_background(row, col, map_type, zoom)
StartBackground(t) ==
  /\ CanStart(t)
  /\ Enter(t, "get_background")
  /\ cf' = [cf EXCEPT ![t] = ReqZoom]
  /\ pc' = [pc EXCEPT ![t] = "g_check"]
  /\ UNCHANGED <<shared, z, minz, dmin, ttime, tzl, delta, elapsed, curWait,
                 notified, reached, history>>
  /\ UNCHANGED ext

\* lines 264-267: if the artifact exists there is nothing to do
BackgroundCheck(t) ==
  /\ pc[t] = "g_check"
  /\ pc' = [pc EXCEPT ![t] = IF cf[t] \in present THEN "done" ELSE "g_call"]
  /\ UNCHANGED <<shared, kind, budget, cf, z, minz, dmin, ret, exc, ttime, tzl,
                 delta, elapsed, curWait, notified, reached, history>>
  /\ UNCHANGED ext

\* line 268: go.get_background_tile(outfile=cache_file) enqueues the
\* production (the key becomes active) and returns; get_background returns
BackgroundCall(t) ==
  /\ pc[t] = "g_call"
  /\ lock = 0
  /\ bg' = [bg EXCEPT ![cf[t]] = @ + 1]
  /\ active' = active \cup {cf[t]}
  /\ dupEnqueue' = IF cf[t] \in active \/ cf[t] \in present
                     THEN dupEnqueue \cup {cf[t]} ELSE dupEnqueue
  /\ pc' = [pc EXCEPT ![t] = "done"]
  /\ UNCHANGED <<present, lock, tile_times, target_zoom, kind, budget, cf, z,
                 minz, dmin, ret, exc, ttime, tzl, delta, elapsed, curWait,
                 notified, reached, waited, walkLog, quickCalls, overwrote>>
  /\ UNCHANGED ext

\* -------------------------------------------------------------- get_best
\* line 271: get_best(row, col, map_type, zoom)
StartBest(t) ==
  /\ CanStart(t)
  /\ Enter(t, "get_best")
  /\ cf' = [cf EXCEPT ![t] = ReqZoom]
  /\ pc' = [pc EXCEPT ![t] = "b_exists"]
  /\ UNCHANGED <<shared, z, minz, dmin, ttime, tzl, delta, elapsed, curWait,
                 notified, reached, history>>
  /\ UNCHANGED ext

\* lines 272-273: a hit returns the artifact (284)
BestCheckExists(t) ==
  /\ pc[t] = "b_exists"
  /\ IF cf[t] \in present
       THEN /\ pc' = [pc EXCEPT ![t] = "done"]
            /\ ret' = [ret EXCEPT ![t] = cf[t]]
       ELSE /\ pc' = [pc EXCEPT ![t] = "b_active"]
            /\ ret' = ret
  /\ UNCHANGED <<shared, kind, budget, cf, z, minz, dmin, exc, ttime, tzl,
                 delta, elapsed, curWait, notified, reached, history>>
  /\ UNCHANGED ext

\* lines 274-276: a busy key degrades to get_quick(zoom, zoom-2), whose result
\* is returned; the test is made without the lock
BestCheckActive(t) ==
  /\ pc[t] = "b_active"
  /\ IF cf[t] \in active
       THEN EnterQuick(t, ReqZoom, ReqZoom - 2)
       ELSE /\ pc' = [pc EXCEPT ![t] = "b_call"]
            /\ UNCHANGED <<z, minz, walkLog>>
  /\ UNCHANGED <<shared, kind, budget, cf, dmin, ret, exc, ttime, tzl, delta,
                 elapsed, curWait, notified, reached, waited, quickCalls,
                 overwrote, dupEnqueue>>
  /\ UNCHANGED ext

\* line 280: the call of go.get_tile(outfile=cache_file)
BestCall(t) ==
  /\ pc[t] = "b_call"
  /\ lock = 0
  /\ active' = active \cup {cf[t]}
  /\ pc' = [pc EXCEPT ![t] = "b_render"]
  /\ UNCHANGED <<present, bg, lock, tile_times, target_zoom, kind, budget, cf,
                 z, minz, dmin, ret, exc, ttime, tzl, delta, elapsed, curWait,
                 notified, reached, history>>
  /\ UNCHANGED ext

\* get_tile returns: the artifact is written; get_best returns it (284)
BestRenderDone(t) ==
  /\ pc[t] = "b_render"
  /\ lock = 0
  /\ present' = present \cup {cf[t]}
  /\ active' = active \ {cf[t]}
  /\ notified' = NotifyAll
  /\ pc' = [pc EXCEPT ![t] = "done"]
  /\ ret' = [ret EXCEPT ![t] = cf[t]]
  /\ UNCHANGED <<bg, lock, tile_times, target_zoom, kind, budget, cf, z, minz,
                 dmin, exc, ttime, tzl, delta, elapsed, curWait, reached,
                 history>>
  /\ UNCHANGED ext

\* get_tile fails: lines 281-284 log the exception and return the path
BestRenderFail(t) ==
  /\ pc[t] = "b_render"
  /\ lock = 0
  /\ active' = active \ {cf[t]}
  /\ notified' = NotifyAll
  /\ pc' = [pc EXCEPT ![t] = "done"]
  /\ ret' = [ret EXCEPT ![t] = cf[t]]
  /\ UNCHANGED <<present, bg, lock, tile_times, target_zoom, kind, budget, cf,
                 z, minz, dmin, exc, ttime, tzl, delta, elapsed, curWait,
                 reached, history>>
  /\ UNCHANGED ext

\* ---------------------------------------------------------- get_deadline
\* lines 287-290: get_deadline(row, col, map_type, zoom, quick_zoom,
\* deadline=D), as the policy calls it: quick_zoom 0 (520-568), zoom-1 (516)
\* or zoom-2 (509, 523), min_zoom 0
EnterDeadline(t, zoom, quick_zoom, min_zoom) ==
  /\ cf' = [cf EXCEPT ![t] = DeadlineFile(zoom, quick_zoom)]
  /\ dmin' = [dmin EXCEPT ![t] = min_zoom]
  /\ pc' = [pc EXCEPT ![t] = "d_exists"]

StartDeadline(t) ==
  /\ CanStart(t)
  /\ Enter(t, "get_deadline")
  /\ \E qz \in {0, ReqZoom - 1, ReqZoom - 2} : EnterDeadline(t, ReqZoom, qz, 0)
  /\ UNCHANGED <<shared, z, minz, ttime, tzl, delta, elapsed, curWait,
                 notified, reached, history>>
  /\ UNCHANGED ext

\* lines 297-303: on a miss get_deadline calls go.get_background_tile first
\* and enters `with self.go.tile_condition` after it, then runs its loop
DeadlineLocksFirst == <<"d_lock", "d_call", "d_loop">>
DeadlineOrder == <<"d_call", "d_lock", "d_loop">>

\* the stage of get_deadline that follows stage s
StageAfter(s) ==
  DeadlineOrder[(CHOOSE i \in 1..2 : DeadlineOrder[i] = s) + 1]

\* lines 292-296: a hit returns at once
DeadlineCheck(t) ==
  /\ pc[t] = "d_exists"
  /\ IF cf[t] \in present
       THEN /\ pc' = [pc EXCEPT ![t] = "done"]
            /\ ret' = [ret EXCEPT ![t] = cf[t]]
       ELSE /\ pc' = [pc EXCEPT ![t] = DeadlineOrder[1]]
            /\ ret' = ret
  /\ UNCHANGED <<shared, kind, budget, cf, z, minz, dmin, exc, ttime, tzl,
                 delta, elapsed, curWait, notified, reached, history>>
  /\ UNCHANGED ext

\* lines 298-302: go.get_background_tile enqueues the production;
\* deadline_reached = False; start_time = time.time()
DeadlineCall(t) ==
  /\ pc[t] = "d_call"
  /\ lock = 0
  /\ bg' = [bg EXCEPT ![cf[t]] = @ + 1]
  /\ active' = active \cup {cf[t]}
  /\ reached' = [reached EXCEPT ![t] = FALSE]
  /\ elapsed' = [elapsed EXCEPT ![t] = 0]
  /\ waited' = [waited EXCEPT ![t] = 0]
  /\ pc' = [pc EXCEPT ![t] = StageAfter("d_call")]
  /\ UNCHANGED <<present, lock, tile_times, target_zoom, kind, budget, cf, z,
                 minz, dmin, ret, exc, ttime, tzl, delta, curWait, notified,
                 walkLog, quickCalls, overwrote, dupEnqueue>>
  /\ UNCHANGED ext

\* line 303: with self.go.tile_condition
DeadlineAcquire(t) ==
  /\ pc[t] = "d_lock"
  /\ lock = 0
  /\ lock' = t
  /\ pc' = [pc EXCEPT ![t] = StageAfter("d_lock")]
  /\ UNCHANGED <<present, active, bg, tile_times, target_zoom, kind, budget,
                 cf, z, minz, dmin, ret, exc, ttime, tzl, delta, elapsed,
                 curWait, notified, reached, history>>
  /\ UNCHANGED ext

\* lines 305-306: the loop test; tile_condition.wait(deadline) releases the
\* lock and blocks
DeadlineLoop(t) ==
  /\ pc[t] = "d_loop"
  /\ lock = t
  /\ IF DeadlineMustWait(cf[t], active, present)
       THEN /\ lock' = 0
            /\ curWait' = [curWait EXCEPT ![t] = 0]
            /\ notified' = [notified EXCEPT ![t] = FALSE]
            /\ pc' = [pc EXCEPT ![t] = "d_wait"]
       ELSE /\ pc' = [pc EXCEPT ![t] = "d_exit"]
            /\ UNCHANGED <<lock, curWait, notified>>
  /\ UNCHANGED <<present, active, bg, tile_times, target_zoom, kind, budget,
                 cf, z, minz, dmin, ret, exc, ttime, tzl, delta, elapsed,
                 reached, history>>
  /\ UNCHANGED ext

\* lines 306-310: the wait ends, by a notification or after its timeout of
\* `deadline`; the lock is taken again and the elapsed time is compared
DeadlineWake(t) ==
  /\ pc[t] = "d_wait"
  /\ notified[t] \/ curWait[t] >= DeadlineTicks
  /\ lock = 0
  /\ lock' = t
  /\ notified' = [notified EXCEPT ![t] = FALSE]
  /\ IF DeadlineBreached(elapsed[t], DeadlineTicks)
       THEN /\ reached' = [reached EXCEPT ![t] = TRUE]
            /\ pc' = [pc EXCEPT ![t] = "d_exit"]
       ELSE /\ reached' = reached
            /\ pc' = [pc EXCEPT ![t] = "d_loop"]
  /\ UNCHANGED <<present, active, bg, tile_times, target_zoom, kind, budget,
                 cf, z, minz, dmin, ret, exc, ttime, tzl, delta, elapsed,
                 curWait, history>>
  /\ UNCHANGED ext

\* lines 312-324: the artifact is returned if it exists and the deadline was
\* not reached; else the lock is released and get_quick(zoom, min_zoom or
\* zoom-3) gives the result
DeadlineExit(t) ==
  /\ pc[t] = "d_exit"
  /\ lock = t
  /\ lock' = 0
  /\ IF cf[t] \in present /\ ~reached[t]
       THEN /\ pc' = [pc EXCEPT ![t] = "done"]
            /\ ret' = [ret EXCEPT ![t] = cf[t]]
            /\ UNCHANGED <<z, minz, walkLog>>
       ELSE /\ EnterQuick(t, ReqZoom, IF dmin[t] = 0 THEN ReqZoom - 3 ELSE dmin[t])
            /\ ret' = ret
  /\ UNCHANGED <<present, active, bg, tile_times, target_zoom, kind, budget,
                 cf, dmin, exc, ttime, tzl, delta, elapsed, curWait, notified,
                 reached, waited, quickCalls, overwrote, dupEnqueue>>
  /\ UNCHANGED ext

\* ----------------------------------------------------- renderer, time, exit
\* a background production of f completes: the artifact is written, the key
\* leaves the Active Set, the condition is broadcast
BackgroundComplete(f) ==
  /\ bg[f] > 0
  /\ lock = 0
  /\ bg' = [bg EXCEPT ![f] = @ - 1]
  /\ present' = present \cup {f}
  /\ active' = active \ {f}
  /\ notified' = NotifyAll
  /\ UNCHANGED <<lock, tile_times, target_zoom, pc, kind, budget, cf, z, minz,
                 dmin, ret, exc, ttime, tzl, delta, elapsed, curWait, reached,
                 history>>
  /\ UNCHANGED ext

\* a background production of f aborts: no artifact is written
BackgroundAbort(f) ==
  /\ bg[f] > 0
  /\ lock = 0
  /\ bg' = [bg EXCEPT ![f] = @ - 1]
  /\ active' = active \ {f}
  /\ notified' = NotifyAll
  /\ UNCHANGED <<present, lock, tile_times, target_zoom, pc, kind, budget, cf,
                 z, minz, dmin, ret, exc, ttime, tzl, delta, elapsed, curWait,
                 reached, history>>
  /\ UNCHANGED ext

\* the threads between get_deadline's start_time and the end of its with-block
Timed == {t \in Threads : pc[t] \in {"d_lock", "d_loop", "d_wait", "d_exit"}}

\* the threads blocked in tile_condition.wait(deadline)
Waiting == {t \in Timed : pc[t] = "d_wait" /\ ~notified[t]}

\* the elapsed time after one more tick; the code only compares it with D
TickUp(e) == IF e < DeadlineTicks THEN e + 1 ELSE e

\* one tick of time passes; a wait whose timeout is due ends first
Tick ==
  /\ Timed # {}
  /\ \E t \in Timed : elapsed[t] < DeadlineTicks \/ t \in Waiting
  /\ \A t \in Waiting : curWait[t] < DeadlineTicks
  /\ elapsed' = [t \in Threads |-> IF t \in Timed THEN TickUp(elapsed[t]) ELSE elapsed[t]]
  /\ curWait' = [t \in Threads |-> IF t \in Waiting THEN curWait[t] + 1 ELSE curWait[t]]
  /\ waited' = [t \in Threads |-> IF t \in Waiting THEN waited[t] + 1 ELSE waited[t]]
  /\ UNCHANGED <<shared, pc, kind, budget, cf, z, minz, dmin, ret, exc, ttime,
                 tzl, delta, notified, reached, walkLog, quickCalls, overwrote,
                 dupEnqueue>>
  /\ UNCHANGED ext

\* the frame of a cache call that has returned or raised is gone
ResetFrame(t) ==
  /\ pc' = [pc EXCEPT ![t] = "idle"]
  /\ cf' = [cf EXCEPT ![t] = NoFile]
  /\ z' = [z EXCEPT ![t] = 0]
  /\ minz' = [minz EXCEPT ![t] = 0]
  /\ ttime' = [ttime EXCEPT ![t] = 0]
  /\ tzl' = [tzl EXCEPT ![t] = 0]
  /\ delta' = [delta EXCEPT ![t] = 0]
  /\ elapsed' = [elapsed EXCEPT ![t] = 0]
  /\ curWait' = [curWait EXCEPT ![t] = 0]
  /\ reached' = [reached EXCEPT ![t] = FALSE]
  /\ waited' = [waited EXCEPT ![t] = 0]
  /\ walkLog' = [walkLog EXCEPT ![t] = <<>>]
  /\ kind' = [kind EXCEPT ![t] = "none"]
  /\ ret' = [ret EXCEPT ![t] = NoFile]
  /\ exc' = [exc EXCEPT ![t] = "none"]

\* a cache call that was not made by a filesystem callback has returned or
\* raised, and the thread may call again
Finish(t) ==
  /\ pc[t] \in {"done", "raised"}
  /\ t = FuseThread => caller = "none"
  /\ ResetFrame(t)
  /\ UNCHANGED <<shared, budget, dmin, notified, quickCalls, overwrote,
                 dupEnqueue>>
  /\ UNCHANGED ext

\* the external janitor deletes an artifact that is not being produced
Janitor(f) ==
  /\ f \in present
  /\ f \notin active
  /\ present' = present \ {f}
  /\ UNCHANGED <<active, bg, lock, tile_times, target_zoom, locals, history>>
  /\ UNCHANGED ext

\* the positions of _fetch_dds at which it reads a flight value
PolicyPcs == {"p_lat", "p_lon", "p_n1", "p_n2", "p_s", "p_e", "p_w",
              "p_v1", "p_a1", "p_v2", "p_a2", "p_v3", "p_v4"}

\* ------------------------------------------------------- FlightFollower
\* lines 62-66: recvfrom times out after 5 s
FollowerTimeout ==
  /\ fpc = "recv"
  /\ connected' = FALSE
  /\ UNCHANGED <<lat, lon, alt, hdg, spd, fpc, pkt>>
  /\ UNCHANGED <<shared, locals, history, mount, dsf>>

\* lines 61, 68-79: a packet arrives; connected is set, the packet is decoded
FollowerRecv(p) ==
  /\ fpc = "recv"
  /\ connected' = TRUE
  /\ pkt' = p
  /\ fpc' = "alt"
  /\ UNCHANGED <<lat, lon, alt, hdg, spd>>
  /\ UNCHANGED <<shared, locals, history, mount, dsf>>

\* the FUSE thread is in _fetch_dds, past its test of connected
InPolicy == pc[FuseThread] \in PolicyPcs

\* the published value of a field of the flight state
FlightValue(f) ==
  CASE f = "alt" -> alt [] f = "lat" -> lat [] f = "lon" -> lon
    [] f = "hdg" -> hdg [] f = "spd" -> spd

\* lines 83-87: self.alt, self.lat, self.lon, self.hdg, self.spd are assigned
\* one after the other
FollowerPublish ==
  /\ fpc # "recv"
  /\ alt' = IF fpc = "alt" THEN pkt.alt ELSE alt
  /\ lat' = IF fpc = "lat" THEN pkt.lat ELSE lat
  /\ lon' = IF fpc = "lon" THEN pkt.lon ELSE lon
  /\ hdg' = IF fpc = "hdg" THEN pkt.hdg ELSE hdg
  /\ spd' = IF fpc = "spd" THEN pkt.spd ELSE spd
  /\ fpc' = CASE fpc = "alt" -> "lat"
              [] fpc = "lat" -> "lon"
              [] fpc = "lon" -> "hdg"
              [] fpc = "hdg" -> "spd"
              [] fpc = "spd" -> "recv"
  /\ torn' = (torn \/ (InPolicy /\ pkt[fpc] # FlightValue(fpc)))
  /\ UNCHANGED <<connected, pkt>>
  /\ UNCHANGED <<shared, locals, history, adapter, px, py, facing_tile, dsf>>

\* ------------------------------------------------ the read-path policy
\* deg2num, lines 29-34: xtile of a longitude and ytile of a latitude, for the
\* values the flight state takes (the placeholder and the aircraft's position)
XTile(lo, zoom) ==
  IF zoom = 16 THEN (IF lo = 10 THEN 34588 ELSE 32585)
  ELSE (IF lo = 10 THEN 69176 ELSE 65171)
YTile(la, zoom) ==
  IF zoom = 16 THEN (IF la = 50 THEN 22226 ELSE 32950)
  ELSE (IF la = 50 THEN 44452 ELSE 65900)

Max(a, b) == IF a >= b THEN a ELSE b

\* line 477: near_range = pow(2, (max(12, int(zoom)) - 12))*4
NearRange(zoom) == 2 ^ (Max(12, zoom) - 12) * 4

\* lines 479-481, and the test distance <= near_range of lines 505, 512, 526
IsNear(col, row, x, y, zoom) ==
  (x - col) * (x - col) + (y - row) * (y - row) <= NearRange(zoom) * NearRange(zoom)

\* lines 483-503: facing_tile
FacingTile(h, col, row, x, y) ==
  IF 315 <= h \/ h < 45 THEN row <= y
  ELSE IF 135 <= h /\ h < 225 THEN row >= y
  ELSE IF 45 <= h /\ h < 135 THEN col >= x
  ELSE IF 225 <= h /\ h < 315 THEN col <= x
  ELSE FALSE

\* the cache calls of the policy; deadlines in hundredths of a second.
\* get_quick's defaults: min_zoom=0, priority=1; get_deadline's: quick_zoom=0,
\* min_zoom=0, priority=5
CallQuick ==
  [op |-> "get_quick", quick_zoom |-> 0, min_zoom |-> 0, deadline |-> 0, priority |-> 1]
CallDeadline(qz, dl, pr) ==
  [op |-> "get_deadline", quick_zoom |-> qz, min_zoom |-> 0, deadline |-> dl, priority |-> pr]

\* line 468: if not self.ff.connected
PolicyIgnoresConnected(c) == FALSE
PolicyDisconnected(c) == ~c

\* the tile of the aircraft, and the tiles a path may name: the aircraft's
\* own, its neighbours, and the tiles at near_range and just beyond it
Home == <<XTile(10, ReqZoom), YTile(50, ReqZoom)>>
Offsets ==
  { <<0, 0>>, <<0, -1>>, <<0, 1>>, <<NearRange(ReqZoom), 0>>,
    <<NearRange(ReqZoom) + 1, 0>>, <<0 - NearRange(ReqZoom) - 1, 0>> }
Tiles == { <<Home[1] + o[1], Home[2] + o[2]>> : o \in Offsets }

\* ------------------------------------------- AutoOrtho: getattr and open
\* the callback makes the cache call c for the tile of its path
MakeCall(t, c) ==
  /\ call' = c
  /\ EnterCall(t, c.op)
  /\ IF c.op = "get_quick"
       THEN /\ EnterQuick(t, ReqZoom, c.min_zoom)
            /\ UNCHANGED <<cf, dmin>>
       ELSE /\ EnterDeadline(t, ReqZoom, c.quick_zoom, c.min_zoom)
            /\ UNCHANGED <<z, minz, walkLog>>

\* the FUSE thread is free to serve a callback
CanServe ==
  /\ caller = "none"
  /\ pc[FuseThread] = "idle"
  /\ budget[FuseThread] > 0
  /\ dsfPc = "idle"

\* lines 377-401: getattr(path) on the tile path; a ZL path is not fetched
\* and os.lstat gets the path below the root
Getattr ==
  /\ CanServe
  /\ budget' = [budget EXCEPT ![FuseThread] = @ - 1]
  /\ call' = NoCall
  /\ IF maptype # "ZL"
       THEN /\ caller' = "getattr"
            /\ pc' = [pc EXCEPT ![FuseThread] = "p_conn"]
            /\ opened' = NoOpen
       ELSE /\ opened' = <<"full_path", NoFile>>
            /\ UNCHANGED <<caller, pc>>
  /\ UNCHANGED <<shared, kind, cf, z, minz, dmin, ret, exc, ttime, tzl, delta,
                 elapsed, curWait, notified, reached, history>>
  /\ UNCHANGED <<flight, dsf, tile, maptype, path_dict>>
  /\ UNCHANGED polLocals

\* _fetch_dds goes on to position p without a cache call
PolicyGoto(t, p) ==
  /\ pc' = [pc EXCEPT ![t] = p]
  /\ UNCHANGED <<call, kind, ret, exc, cf, dmin, z, minz, walkLog, torn>>

\* _fetch_dds makes the cache call c; its locals are not used after it
PolicyCalls(t, c) ==
  /\ MakeCall(t, c)
  /\ px' = 0
  /\ py' = 0
  /\ facing_tile' = FALSE
  /\ torn' = FALSE

\* what no step of _fetch_dds changes
PolicyFrame ==
  /\ UNCHANGED <<shared, budget, ttime, tzl, delta, elapsed, curWait, notified,
                 reached, waited, quickCalls, overwrote, dupEnqueue>>
  /\ UNCHANGED <<flight, dsf, tile, maptype, caller, path_dict, opened>>

\* the test distance <= near_range of lines 505, 512, 526 on the locals
NearTile == IsNear(tile[1], tile[2], px, py, ReqZoom)

\* the calls of lines 509/511, 516/519 and 523/525: facing_tile or not
FastCall(f, qz, dl) == IF f THEN CallDeadline(qz, dl, 5) ELSE CallQuick

\* lines 468-470: _fetch_dds without a connection calls get_quick
PolicyConnected(t) ==
  /\ pc[t] = "p_conn"
  /\ IF PolicyDisconnected(connected)
       THEN /\ MakeCall(t, CallQuick)
            /\ torn' = torn
       ELSE PolicyGoto(t, "p_lat")
  /\ UNCHANGED <<px, py, facing_tile>>
  /\ PolicyFrame

\* line 472: deg2num reads self.ff.lat ...
PolicyLat(t) ==
  /\ pc[t] = "p_lat"
  /\ py' = YTile(lat, ReqZoom)
  /\ PolicyGoto(t, "p_lon")
  /\ UNCHANGED <<px, facing_tile>>
  /\ PolicyFrame

\* ... and self.ff.lon; line 483: facing_tile = False
PolicyLon(t) ==
  /\ pc[t] = "p_lon"
  /\ px' = XTile(lon, ReqZoom)
  /\ facing_tile' = FALSE
  /\ PolicyGoto(t, "p_n1")
  /\ UNCHANGED py
  /\ PolicyFrame

\* a test of self.ff.hdg: if it holds facing_tile is set to f and the
\* strategy is selected, else the test at position q is next
PolicyHeading(t, holds, f, q) ==
  /\ IF holds
       THEN /\ facing_tile' = f
            /\ PolicyGoto(t, "p_v1")
       ELSE /\ facing_tile' = facing_tile
            /\ PolicyGoto(t, q)
  /\ UNCHANGED <<px, py>>
  /\ PolicyFrame

\* lines 484-487: 315 <= float(self.ff.hdg) ...
PolicyNorth1(t) ==
  /\ pc[t] = "p_n1"
  /\ PolicyHeading(t, 315 <= hdg, tile[2] <= py, "p_n2")

\* ... or float(self.ff.hdg) < 45, which reads the heading again
PolicyNorth2(t) ==
  /\ pc[t] = "p_n2"
  /\ PolicyHeading(t, hdg < 45, tile[2] <= py, "p_s")

\* lines 489-492
PolicySouth(t) ==
  /\ pc[t] = "p_s"
  /\ PolicyHeading(t, 135 <= hdg /\ hdg < 225, tile[2] >= py, "p_e")

\* lines 494-497
PolicyEast(t) ==
  /\ pc[t] = "p_e"
  /\ PolicyHeading(t, 45 <= hdg /\ hdg < 135, tile[1] >= px, "p_w")

\* lines 499-503: no heading matched leaves facing_tile False
PolicyWest(t) ==
  /\ pc[t] = "p_w"
  /\ PolicyHeading(t, 225 <= hdg /\ hdg < 315, tile[1] <= px, "p_v1")

\* a test `self.ff.spd > v and distance <= near_range`: if it holds the
\* altitude is read at position a, else position q is next
PolicySpeed(t, v, a, q) ==
  /\ PolicyGoto(t, IF spd > v /\ NearTile THEN a ELSE q)
  /\ UNCHANGED <<px, py, facing_tile>>
  /\ PolicyFrame

\* the test `self.ff.alt < 4500`: if it holds the call is made with
\* quick_zoom qz and deadline dl, else position q is next
PolicyAlt(t, qz, dl, q) ==
  /\ IF alt < 4500
       THEN PolicyCalls(t, FastCall(facing_tile, qz, dl))
       ELSE /\ PolicyGoto(t, q)
            /\ UNCHANGED <<px, py, facing_tile>>
  /\ PolicyFrame

\* lines 505-511
PolicySpeed1(t) ==
  /\ pc[t] = "p_v1"
  /\ PolicySpeed(t, 400, "p_a1", "p_v2")
PolicyAlt1(t) ==
  /\ pc[t] = "p_a1"
  /\ PolicyAlt(t, ReqZoom - 2, 35, "p_v2")

\* lines 512-519
PolicySpeed2(t) ==
  /\ pc[t] = "p_v2"
  /\ PolicySpeed(t, 200, "p_a2", "p_v3")
PolicyAlt2(t) ==
  /\ pc[t] = "p_a2"
  /\ PolicyAlt(t, ReqZoom - 1, 100, "p_v3")

\* lines 520-532, 561-568: self.ff.spd > 200 without a test of the distance;
\* else the near tile that is faced, the near tile that is not (551 is next),
\* and the far tile
PolicySpeed3(t) ==
  /\ pc[t] = "p_v3"
  /\ IF spd > 200
       THEN PolicyCalls(t, FastCall(facing_tile, ReqZoom - 2, 35))
       ELSE IF NearTile
         THEN IF facing_tile
                THEN PolicyCalls(t, CallDeadline(0, 400, 2))
                ELSE /\ PolicyGoto(t, "p_v4")
                     /\ UNCHANGED <<px, py, facing_tile>>
         ELSE PolicyCalls(t, FastCall(facing_tile, 0, 150))
  /\ PolicyFrame

\* lines 551-558: elif self.ff.spd < 2
PolicySpeed4(t) ==
  /\ pc[t] = "p_v4"
  /\ PolicyCalls(t, IF spd < 2 THEN CallDeadline(0, 800, 5)
                               ELSE CallDeadline(0, 100, 5))
  /\ PolicyFrame

\* the steps of _fetch_dds
Policy(t) ==
  \/ PolicyConnected(t) \/ PolicyLat(t) \/ PolicyLon(t)
  \/ PolicyNorth1(t) \/ PolicyNorth2(t) \/ PolicySouth(t) \/ PolicyEast(t)
  \/ PolicyWest(t)
  \/ PolicySpeed1(t) \/ PolicyAlt1(t) \/ PolicySpeed2(t) \/ PolicyAlt2(t)
  \/ PolicySpeed3(t) \/ PolicySpeed4(t)

\* lines 390-401: _fetch_dds returns; the path is stored in path_dict and
\* handed to os.lstat
GetattrReturn(t) ==
  /\ caller = "getattr"
  /\ pc[t] = "done"
  /\ path_dict' = ret[t]
  /\ opened' = <<"artifact", ret[t]>>
  /\ caller' = "none"
  /\ ResetFrame(t)
  /\ UNCHANGED <<shared, budget, dmin, notified, quickCalls, overwrote,
                 dupEnqueue>>
  /\ UNCHANGED <<flight, dsf, tile, maptype, call>>
  /\ UNCHANGED polLocals

\* line 595: if not cache_file
OpenNeverUsesPathMap(entry) == FALSE
OpenUsesPathMap(entry) == entry # NoFile

\* lines 591-604: open(path) on the tile path, whatever its maptype: the
\* entry of path_dict is opened, and without one get_quick is called
Open ==
  /\ CanServe
  /\ budget' = [budget EXCEPT ![FuseThread] = @ - 1]
  /\ IF OpenUsesPathMap(path_dict)
       THEN /\ opened' = <<"artifact", path_dict>>
            /\ call' = NoCall
            /\ UNCHANGED <<caller, pc, kind, ret, exc, cf, dmin, z, minz, walkLog>>
       ELSE /\ caller' = "open"
            /\ opened' = NoOpen
            /\ MakeCall(FuseThread, CallQuick)
  /\ UNCHANGED <<shared, ttime, tzl, delta, elapsed, curWait, notified,
                 reached, waited, quickCalls, overwrote, dupEnqueue>>
  /\ UNCHANGED <<flight, dsf, tile, maptype, path_dict>>
  /\ UNCHANGED polLocals

\* lines 601-604: get_quick returns; the path is stored and opened
OpenReturn(t) ==
  /\ caller = "open"
  /\ pc[t] = "done"
  /\ path_dict' = ret[t]
  /\ opened' = <<"artifact", ret[t]>>
  /\ caller' = "none"
  /\ ResetFrame(t)
  /\ UNCHANGED <<shared, budget, dmin, notified, quickCalls, overwrote,
                 dupEnqueue>>
  /\ UNCHANGED <<flight, dsf, tile, maptype, call>>
  /\ UNCHANGED polLocals

\* the cache call raised: the exception leaves the callback, path_dict is
\* not assigned
CallbackRaise(t) ==
  /\ caller # "none"
  /\ pc[t] = "raised"
  /\ opened' = <<"error", NoFile>>
  /\ caller' = "none"
  /\ ResetFrame(t)
  /\ UNCHANGED <<shared, budget, dmin, notified, quickCalls, overwrote,
                 dupEnqueue>>
  /\ UNCHANGED <<flight, dsf, tile, maptype, call, path_dict>>
  /\ UNCHANGED polLocals

\* -------------------------------------------------------------- DSF.open
\* line 128: num_chunks = 8
num_chunks == 8

\* line 129: chunk_size = int(num_dds/num_chunks)
ChunkSize(n) == n \div num_chunks

\* lines 131-132: the number of start indexes range(len(dds_list))[::chunk_size]
NumStarts(n, cs) == (n + cs - 1) \div cs

\* dds_list[i:i+chunk_size] for the k-th start index i = (k-1)*chunk_size: the
\* paths are numbered 1 .. n in the order of dds_list
ChunkAt(k, n, cs) ==
  [j \in 1..(IF k * cs <= n THEN cs ELSE n - (k - 1) * cs) |-> (k - 1) * cs + j]

\* lines 131-132: chunked_list
ChunkedList(n, cs) == [k \in 1..NumStarts(n, cs) |-> ChunkAt(k, n, cs)]

\* lines 125-135: the paths are counted and chunked; a chunk_size of 0 makes
\* the slice [::0] raise ValueError
DsfChunk ==
  /\ dsfPc = "start"
  /\ IF ChunkSize(dsfN) = 0
       THEN /\ dsfPc' = "raised"
            /\ chunks' = chunks
       ELSE /\ dsfPc' = "spawn"
            /\ chunks' = ChunkedList(dsfN, ChunkSize(dsfN))
  /\ UNCHANGED <<dsfN, needs, pkey, wpos, wstat, wloc, dfiles, fetched>>
  /\ UNCHANGED <<shared, locals, history, flight, mount>>

\* lines 138-142: one thread is started per chunk
DsfSpawn ==
  /\ dsfPc = "spawn"
  /\ IF Len(wstat) < Len(chunks)
       THEN /\ wstat' = Append(wstat, "running")
            /\ wpos' = Append(wpos, 0)
            /\ wpc' = Append(wpc, "w_path")
            /\ wz' = Append(wz, 0)
            /\ wtime' = Append(wtime, 0)
            /\ wtzl' = Append(wtzl, 0)
            /\ wdelta' = Append(wdelta, 0)
            /\ dsfPc' = dsfPc
       ELSE /\ dsfPc' = "join"
            /\ UNCHANGED <<wstat, wpos, wloc>>
  /\ UNCHANGED <<dsfN, needs, pkey, chunks, dfiles, fetched>>
  /\ UNCHANGED <<shared, locals, history, flight, mount>>

\* the status of a worker after it has gone through k paths of its chunk
AfterPath(w, k) == IF k = Len(chunks[w]) THEN "ended" ELSE "running"

\* worker w is at position p of get_dds
WorkerAt(w, p) ==
  /\ w \in 1..Len(wstat)
  /\ wstat[w] = "running"
  /\ wpc[w] = p

\* the path of its chunk worker w is at
WorkerPath(w) == chunks[w][wpos[w] + 1]

\* lines 200, 216: the cache file of worker w's path at level lvl
WorkerFile(w, lvl) == <<pkey[WorkerPath(w)], lvl>>

\* line 152, 248: get_dds goes on to the next path of its chunk, or returns
WorkerNext(w, got) ==
  /\ wpos' = [wpos EXCEPT ![w] = @ + 1]
  /\ wstat' = [wstat EXCEPT ![w] = AfterPath(w, wpos[w] + 1)]
  /\ wpc' = [wpc EXCEPT ![w] = "w_path"]
  /\ wz' = [wz EXCEPT ![w] = 0]
  /\ wtime' = [wtime EXCEPT ![w] = 0]
  /\ wtzl' = [wtzl EXCEPT ![w] = 0]
  /\ wdelta' = [wdelta EXCEPT ![w] = 0]
  /\ fetched' = IF got THEN fetched \cup {WorkerPath(w)} ELSE fetched

\* what a step of a worker leaves alone besides the cache and its own locals
WorkerFrame ==
  /\ UNCHANGED <<dsfN, needs, pkey, dsfPc, chunks>>
  /\ UNCHANGED <<present, active, bg, lock>>
  /\ UNCHANGED <<locals, history, flight, mount>>

\* lines 158-163, 175-176: a file that exists with size > 0 is left alone
WorkerSkip(w) ==
  /\ WorkerAt(w, "w_path")
  /\ WorkerPath(w) \notin needs
  /\ WorkerNext(w, FALSE)
  /\ UNCHANGED <<dfiles, tile_times, target_zoom>>
  /\ WorkerFrame

\* lines 158-174, 194-198: a file that is absent (then touched) or empty is
\* fetched with get_quick(row, col, maptype, zoom), min_zoom = zoom - 3
WorkerEnter(w) ==
  /\ WorkerAt(w, "w_path")
  /\ WorkerPath(w) \in needs
  /\ wz' = [wz EXCEPT ![w] = WalkFirst(ReqZoom, QuickMinZoom(ReqZoom, 0))]
  /\ wpc' = [wpc EXCEPT ![w] = "w_walk"]
  /\ UNCHANGED <<wpos, wstat, wtime, wtzl, wdelta, dfiles, fetched, tile_times,
                 target_zoom>>
  /\ WorkerFrame

\* lines 199-213: one iteration of the zoom walk, its with-block as one step
WorkerWalk(w) ==
  /\ WorkerAt(w, "w_walk")
  /\ lock = 0
  /\ LET r == WalkCheck(WorkerFile(w, wz[w]), dactive, dcache) IN
       IF WalkContinues(r, wz[w], QuickMinZoom(ReqZoom, 0))
         THEN /\ wz' = [wz EXCEPT ![w] = WalkNext(wz[w])]
              /\ UNCHANGED <<wpos, wstat, wpc, wtime, wtzl, wdelta, fetched>>
         ELSE IF AfterWalk(r = "hit") = "done"
           THEN WorkerNext(w, TRUE)
           ELSE /\ wpc' = [wpc EXCEPT ![w] = "w_miss"]
                /\ UNCHANGED <<wpos, wstat, wz, wtime, wtzl, wdelta, fetched>>
  /\ UNCHANGED <<dfiles, tile_times, target_zoom>>
  /\ WorkerFrame

\* lines 215-218: not found; the test of the while loop, made without the lock
WorkerCheckActive(w) ==
  /\ WorkerAt(w, "w_miss")
  /\ wz' = [wz EXCEPT ![w] = QuickMinZoom(ReqZoom, 0)]
  /\ wpc' = [wpc EXCEPT ![w] =
       IF WorkerFile(w, QuickMinZoom(ReqZoom, 0)) \in dactive
         THEN "w_wait" ELSE "w_emit"]
  /\ UNCHANGED <<wpos, wstat, wtime, wtzl, wdelta, dfiles, fetched,
                 tile_times, target_zoom>>
  /\ WorkerFrame

\* line 220: tile_condition.wait() by a thread that does not hold the
\* condition's lock raises RuntimeError, which leaves get_quick and
\* get_dds and ends the thread
WorkerWait(w) ==
  /\ WorkerAt(w, "w_wait")
  /\ wstat' = [wstat EXCEPT ![w] = "died"]
  /\ UNCHANGED <<wpos, wloc, dfiles, fetched, tile_times, target_zoom>>
  /\ WorkerFrame

\* lines 225-228: the call of go.get_quick_tile(outfile=cache_file), in which
\* the thread blocks; the renderer marks the key active before it works
WorkerEmit(w) ==
  /\ WorkerAt(w, "w_emit")
  /\ lock = 0
  /\ dactive' = dactive \cup {WorkerFile(w, wz[w])}
  /\ wpc' = [wpc EXCEPT ![w] = "w_render"]
  /\ UNCHANGED <<wpos, wstat, wz, wtime, wtzl, wdelta, dcache, dbg, fetched,
                 tile_times, target_zoom>>
  /\ WorkerFrame

\* get_quick_tile returns after d tenths of a second: the artifact is written
\* and the key leaves the Active Set; lines 231-232
WorkerRenderDone(w, d) ==
  /\ WorkerAt(w, "w_render")
  /\ lock = 0
  /\ dcache' = dcache \cup {WorkerFile(w, wz[w])}
  /\ dactive' = dactive \ {WorkerFile(w, wz[w])}
  /\ wtime' = [wtime EXCEPT ![w] = d]
  /\ wpc' = [wpc EXCEPT ![w] = "w_ctl"]
  /\ UNCHANGED <<wpos, wstat, wz, wtzl, wdelta, dbg, fetched, tile_times,
                 target_zoom>>
  /\ WorkerFrame

\* lines 226-228: get_quick_tile fails: no artifact, the key leaves the
\* Active Set; the exception leaves get_quick and get_dds, which have no
\* handler, and ends the thread
WorkerRenderFail(w) ==
  /\ WorkerAt(w, "w_render")
  /\ lock = 0
  /\ dactive' = dactive \ {WorkerFile(w, wz[w])}
  /\ wstat' = [wstat EXCEPT ![w] = "died"]
  /\ UNCHANGED <<wpos, wloc, dcache, dbg, fetched, tile_times, target_zoom>>
  /\ WorkerFrame

\* a background production of f, under way when DSF.open started, completes:
\* the artifact is written and the key leaves the Active Set
DsfBackgroundComplete(f) ==
  /\ f \in dbg
  /\ lock = 0
  /\ dbg' = dbg \ {f}
  /\ dcache' = dcache \cup {f}
  /\ dactive' = dactive \ {f}
  /\ UNCHANGED <<dsfN, needs, pkey, dsfPc, chunks, wpos, wstat, wloc, fetched>>
  /\ UNCHANGED <<shared, locals, history, flight, mount>>

\* a background production of f aborts: no artifact is written
DsfBackgroundAbort(f) ==
  /\ f \in dbg
  /\ lock = 0
  /\ dbg' = dbg \ {f}
  /\ dactive' = dactive \ {f}
  /\ UNCHANGED <<dsfN, needs, pkey, dsfPc, chunks, wpos, wstat, wloc, dcache,
                 fetched>>
  /\ UNCHANGED <<shared, locals, history, flight, mount>>

\* line 234: self.tile_times.append(tile_time)
WorkerCtl(w) ==
  /\ WorkerAt(w, "w_ctl")
  /\ tile_times' = PushTime(tile_times, wtime[w])
  /\ wpc' = [wpc EXCEPT ![w] = "w_avg"]
  /\ UNCHANGED <<wpos, wstat, wz, wtime, wtzl, wdelta, dfiles, fetched,
                 target_zoom>>
  /\ WorkerFrame

\* lines 235-236, 240, 244-248: the window is summed and the average compared;
\* an average in between returns cache_file
WorkerAvg(w) ==
  /\ WorkerAt(w, "w_avg")
  /\ IF Trend(tile_times) = 0
       THEN WorkerNext(w, TRUE)
       ELSE /\ wdelta' = [wdelta EXCEPT ![w] = Trend(tile_times)]
            /\ wpc' = [wpc EXCEPT ![w] = "w_guard"]
            /\ UNCHANGED <<wpos, wstat, wz, wtime, wtzl, fetched>>
  /\ UNCHANGED <<dfiles, tile_times, target_zoom>>
  /\ WorkerFrame

\* lines 237, 241: the guard reads target_zoom; a guard that fails returns
\* cache_file (248)
WorkerGuard(w) ==
  /\ WorkerAt(w, "w_guard")
  /\ IF GuardPasses(wdelta[w], target_zoom)
       THEN /\ wpc' = [wpc EXCEPT ![w] = "w_load"]
            /\ UNCHANGED <<wpos, wstat, wz, wtime, wtzl, wdelta, fetched>>
       ELSE WorkerNext(w, TRUE)
  /\ UNCHANGED <<dfiles, tile_times, target_zoom>>
  /\ WorkerFrame

\* lines 238, 242: self.target_zoom -= 1 / += 1 reads the attribute ...
WorkerLoad(w) ==
  /\ WorkerAt(w, "w_load")
  /\ wtzl' = [wtzl EXCEPT ![w] = target_zoom]
  /\ wpc' = [wpc EXCEPT ![w] = "w_store"]
  /\ UNCHANGED <<wpos, wstat, wz, wtime, wdelta, dfiles, fetched, tile_times,
                 target_zoom>>
  /\ WorkerFrame

\* ... and stores the new value; then get_quick returns cache_file (248)
WorkerStore(w) ==
  /\ WorkerAt(w, "w_store")
  /\ target_zoom' = wtzl[w] + wdelta[w]
  /\ WorkerNext(w, TRUE)
  /\ UNCHANGED <<dfiles, tile_times>>
  /\ WorkerFrame

\* lines 152-178 -> 193-248: a step of worker thread w
WorkerStep(w) ==
  \/ WorkerSkip(w) \/ WorkerEnter(w) \/ WorkerWalk(w)
  \/ WorkerCheckActive(w) \/ WorkerWait(w) \/ WorkerEmit(w)
  \/ \E d \in DsfTimes : WorkerRenderDone(w, d)
  \/ WorkerRenderFail(w)
  \/ WorkerCtl(w) \/ WorkerAvg(w) \/ WorkerGuard(w)
  \/ WorkerLoad(w) \/ WorkerStore(w)

\* lines 144-149: every worker is joined, then open returns
DsfJoin ==
  /\ dsfPc = "join"
  /\ \A w \in 1..Len(wstat) : wstat[w] # "running"
  /\ dsfPc' = "returned"
  /\ UNCHANGED <<dsfN, needs, pkey, chunks, wpos, wstat, wloc, dfiles, fetched>>
  /\ UNCHANGED <<shared, locals, history, flight, mount>>

\* ------------------------------------------------------- specifications
\* the cache under concurrent calls of all four operations
Next ==
  \/ \E t \in Threads :
       \/ StartQuick(t) \/ StartTarget(t)
       \/ QuickWalk(t) \/ QuickCheckActive(t) \/ QuickWait(t)
       \/ QuickEmit(t) \/ QuickRenderFail(t)
       \/ \E d \in SlowTimes : QuickRenderDone(t, d)
       \/ QuickCtl(t) \/ QuickCtlAvg(t) \/ QuickCtlGuard(t)
       \/ QuickCtlLoad(t) \/ QuickCtlStore(t)
       \/ StartBackground(t) \/ BackgroundCheck(t) \/ BackgroundCall(t)
       \/ StartBest(t) \/ BestCheckExists(t) \/ BestCheckActive(t)
       \/ BestCall(t) \/ BestRenderDone(t) \/ BestRenderFail(t)
       \/ StartDeadline(t) \/ DeadlineCheck(t) \/ DeadlineCall(t)
       \/ DeadlineAcquire(t) \/ DeadlineLoop(t) \/ DeadlineWake(t)
       \/ DeadlineExit(t)
       \/ Finish(t)
  \/ \E f \in Files : BackgroundComplete(f) \/ BackgroundAbort(f)
  \/ Tick

Spec == Init /\ [][Next]_vars

\* get_quick alone, called by every thread for the same key on a cold cache,
\* with a renderer that completes every production it starts
InitQuick ==
  /\ InitLocals
  /\ InitShared
  /\ present = {}
  /\ budget = [t \in Threads |-> 1]
  /\ InitExt

QuickThread(t) ==
  \/ StartQuick(t) \/ QuickWalk(t) \/ QuickCheckActive(t) \/ QuickWait(t)
  \/ QuickEmit(t)
  \/ \E d \in SlowTimes : QuickRenderDone(t, d)
  \/ QuickCtl(t) \/ QuickCtlAvg(t) \/ QuickCtlGuard(t)
  \/ QuickCtlLoad(t) \/ QuickCtlStore(t)
  \/ Finish(t)

NextQuick == \E t \in Threads : QuickThread(t)

SpecQuick ==
  InitQuick /\ [][NextQuick]_vars /\ \A t \in Threads : WF_vars(QuickThread(t))

\* get_quick on a cache that holds any artifacts and has background
\* productions under way, enqueued by earlier get_background or get_deadline
\* calls for the levels above the lowest one (which get_quick itself produces)
InitWalk ==
  /\ InitLocals
  /\ tile_times = <<>>
  /\ target_zoom = 16
  /\ lock = 0
  /\ quickCalls = [f \in Files |-> 0]
  /\ overwrote = {}
  /\ dupEnqueue = {}
  /\ present \in SUBSET Files
  /\ active \in SUBSET (Files \ {ReqZoom - 3})
  /\ bg = [f \in Files |-> IF f \in active THEN 1 ELSE 0]
  /\ budget = [t \in Threads |-> 1]
  /\ InitExt

NextWalk ==
  \/ \E t \in Threads : QuickThread(t)
  \/ \E f \in Files : BackgroundComplete(f) \/ BackgroundAbort(f)

SpecWalk == InitWalk /\ [][NextWalk]_vars

\* the adaptive zoom controller: one thread calls get_quick again and again,
\* the renderer takes any of TileTimes, the janitor empties the cache
InitCtl ==
  /\ InitLocals
  /\ InitShared
  /\ present = {}
  /\ budget = [t \in Threads |-> IF t = 1 THEN CtlCalls ELSE 0]
  /\ InitExt

NextCtl ==
  \/ \E t \in Threads :
       \/ StartQuick(t) \/ QuickWalk(t) \/ QuickCheckActive(t) \/ QuickEmit(t)
       \/ \E d \in TileTimes : QuickRenderDone(t, d)
       \/ QuickCtl(t) \/ QuickCtlAvg(t) \/ QuickCtlGuard(t)
       \/ QuickCtlLoad(t) \/ QuickCtlStore(t)
       \/ Finish(t)
  \/ \E f \in Files : Janitor(f)

SpecCtl == InitCtl /\ [][NextCtl]_vars

\* the cache calls a filesystem callback makes, on the FUSE thread
ServeCache(t) ==
  \/ QuickWalk(t) \/ QuickCheckActive(t) \/ QuickEmit(t) \/ QuickRenderFail(t)
  \/ \E d \in SlowTimes : QuickRenderDone(t, d)
  \/ QuickCtl(t) \/ QuickCtlAvg(t) \/ QuickCtlGuard(t)
  \/ QuickCtlLoad(t) \/ QuickCtlStore(t)
  \/ DeadlineCheck(t) \/ DeadlineCall(t) \/ DeadlineAcquire(t)
  \/ DeadlineLoop(t) \/ DeadlineWake(t) \/ DeadlineExit(t)

\* the read-path policy: one getattr on a tile path, of any of Tiles, on a
\* cold cache, while the follower receives Packets
InitPolicy ==
  /\ InitLocals
  /\ InitShared
  /\ present = {}
  /\ budget = [t \in Threads |-> IF t = FuseThread THEN 1 ELSE 0]
  /\ InitFlight
  /\ InitAdapter
  /\ InitDsfIdle
  /\ tile \in Tiles
  /\ maptype = "BI"

NextPolicy ==
  \/ Getattr
  \/ Policy(FuseThread)
  \/ ServeCache(FuseThread)
  \/ GetattrReturn(FuseThread) \/ CallbackRaise(FuseThread)
  \/ \E f \in Files : BackgroundComplete(f) \/ BackgroundAbort(f)
  \/ Tick
  \/ FollowerTimeout \/ FollowerPublish
  \/ \E p \in Packets : FollowerRecv(p)

SpecPolicy == InitPolicy /\ [][NextPolicy]_vars

\* getattr and open on one tile path, with maptype BI or ZL, on a cold cache
InitMount ==
  /\ InitLocals
  /\ InitShared
  /\ present = {}
  /\ budget = [t \in Threads |-> IF t = FuseThread THEN MountCalls ELSE 0]
  /\ InitFlight
  /\ InitAdapter
  /\ InitDsfIdle
  /\ tile = Home
  /\ maptype \in {"BI", "ZL"}

NextMount ==
  \/ Getattr \/ Open
  \/ Policy(FuseThread)
  \/ ServeCache(FuseThread)
  \/ GetattrReturn(FuseThread) \/ OpenReturn(FuseThread)
  \/ CallbackRaise(FuseThread)
  \/ \E f \in Files : BackgroundComplete(f) \/ BackgroundAbort(f)
  \/ Tick
  \/ FollowerTimeout \/ FollowerPublish
  \/ \E p \in FewPackets : FollowerRecv(p)

SpecMount == InitMount /\ [][NextMount]_vars

\* DSF.open on a scenery file that refers to 0 .. MaxDds dds paths, all of
\* them, or all but one, absent or empty
InitDsf ==
  /\ InitLocals
  /\ InitShared
  /\ present = {}
  /\ budget = [t \in Threads |-> 0]
  /\ InitFlight
  /\ InitAdapter
  /\ tile = Home
  /\ maptype = "BI"
  /\ dsfN \in 0..MaxDds
  /\ needs \in {S \in SUBSET (1..dsfN) : \A k \in S : k <= MaxInputs}
  /\ pkey \in {[k \in 1..dsfN |-> IF k \in S THEN 1 ELSE k] :
                 S \in SUBSET (needs \ {1})}
  /\ dsfPc = "start"
  /\ chunks = <<>>
  /\ wpos = <<>>
  /\ wstat = <<>>
  /\ wpc = <<>>
  /\ wz = <<>>
  /\ wtime = <<>>
  /\ wtzl = <<>>
  /\ wdelta = <<>>
  /\ dcache \in SUBSET WarmFiles
  /\ dbg \in {S \in SUBSET WarmFiles :
        Cardinality(needs) + Cardinality(dcache) + Cardinality(S) <= MaxInputs}
  /\ dactive = dbg
  /\ fetched = {}

NextDsf ==
  \/ DsfChunk \/ DsfSpawn \/ DsfJoin
  \/ \E w \in 1..MaxDds : WorkerStep(w)
  \/ \E f \in WarmFiles : DsfBackgroundComplete(f) \/ DsfBackgroundAbort(f)

SpecDsf == InitDsf /\ [][NextDsf]_vars

\* ------------------------------------------------------------------ claims
\* C1: single-flight: for every key at most one renderer call producing its
\* artifact is in flight at any instant.
C1_SingleFlight == \A f \in Files : InFlight(f) <= 1

\* C2: threads calling get_quick for the same key on a cold cache make one
\* get_quick_tile call in total, and every call that ends returns the path of
\* an artifact on disk.
C2_OneRendererCall ==
  /\ SumOver(Files, quickCalls) <= 1
  /\ \A t \in Threads : pc[t] = "done" => ret[t] \in present

\* C3: Target Zoom is in [12, 18] in every reachable state.
C3_TargetZoomClamped == target_zoom \in 12..18

\* C4: a get_deadline call never spends more than its deadline D waiting on
\* the tile condition, summed over the iterations of its loop.
C4_WaitWithinDeadline == \A t \in Threads : waited[t] <= DeadlineTicks

\* C5: a failure of a renderer primitive never leaves a cache operation as an
\* exception.
C5_RendererFailureSwallowed == \A t \in Threads : exc[t] # "RendererError"

\* C6: get_quick never calls get_quick_tile with an outfile that exists.
C6_NeverOverwrites == overwrote = {}

\* the levels a walk found present and not active when it checked them
AvailSeen(t) ==
  {walkLog[t][i][1] :
     i \in {j \in 1..Len(walkLog[t]) : walkLog[t][j][2] /\ ~walkLog[t][j][3]}}

HighestOf(S) == CHOOSE m \in S : \A n \in S : n <= m

\* C7: the walk of get_quick visits zoom, zoom-1, ... down to min_zoom at most;
\* a walk that ends without a hit found no level present and not active, and a
\* walk that returns a hit returns the highest level it found present and not
\* active.
C7_WalkHighToLow ==
  \A t \in Threads :
    /\ \A i \in 1..Len(walkLog[t]) :
         /\ walkLog[t][i][1] = ReqZoom - (i - 1)
         /\ walkLog[t][i][1] >= minz[t]
    /\ pc[t] = "q_miss" => AvailSeen(t) = {}
    /\ (pc[t] = "done" /\ walkLog[t] # <<>>) =>
         (AvailSeen(t) # {} /\ ret[t] = HighestOf(AvailSeen(t)))

\* C7 witness: a walk passed a higher level whose artifact was on disk but
\* in the Active Set, and another that was absent, and returned the artifact
\* of a lower level.
C7_Witness ==
  \E t \in Threads :
    /\ pc[t] = "done"
    /\ Len(walkLog[t]) >= 3
    /\ \E i \in 1..Len(walkLog[t]) : walkLog[t][i][2] /\ walkLog[t][i][3]
    /\ \E i \in 1..Len(walkLog[t]) : ~walkLog[t][i][2] /\ ~walkLog[t][i][3]
    /\ ret[t] \in AvailSeen(t)
    /\ ret[t] < ReqZoom - 1

\* C8: get_background enqueues nothing for a key that is in the Active Set or
\* whose artifact is present.
C8_BackgroundIdempotent == dupEnqueue = {}

\* C9: a get_quick call that ends has returned, and the artifact it returns
\* exists on disk, also when the min_zoom key was active during the call.
C9_QuickReturns ==
  \A t \in Threads :
    pc[t] \in {"done", "raised"} => (exc[t] = "none" /\ ret[t] \in present)

\* the mean of the times in the window exceeds 2 s / is at most 0.3 s
MeanAbove2(w) == w # <<>> /\ SumSeq(w) > 20 * Len(w)
MeanAtMost03(w) == w # <<>> /\ SumSeq(w) <= 3 * Len(w)

\* the controller of the specification: -1, +1 or 0
StatedDelta(w, tz) ==
  IF MeanAbove2(w) /\ tz >= 13 THEN -1
  ELSE IF MeanAtMost03(w) /\ tz < 18 THEN 1
  ELSE 0

\* C10: after a renderer completion the controller decrements Target Zoom iff
\* the mean of the window > 2 s and Target Zoom >= 13, increments it iff the
\* mean <= 0.3 s and Target Zoom < 18, and leaves it otherwise.
C10_ControllerRule ==
  [][\A t \in Threads :
       /\ (pc[t] = "q_avg" /\ pc'[t] = "done") =>
            StatedDelta(tile_times, target_zoom) = 0
       /\ (pc[t] = "q_guard" /\ pc'[t] # "q_guard") =>
            delta'[t] = StatedDelta(tile_times, target_zoom)]_vars

\* C11: Target Zoom and the Tile Time Window change only in the controller of
\* a get_quick call whose renderer fetch has completed; get_background,
\* get_best, the waiting of get_deadline and a get_quick that returns a cache
\* hit leave both unchanged.
C11_ControllerFrame ==
  [][(tile_times' # tile_times \/ target_zoom' # target_zoom) =>
       \E t \in Threads :
         /\ pc[t] \in {"q_ctl", "q_store"}
         /\ pc'[t] # pc[t]
         /\ ttime[t] > 0]_vars

\* C11 witness: the controller has acted after one fetch, and another
\* get_quick call has returned a cache hit without a fetch of its own.
C11_Witness ==
  /\ Len(tile_times) = 1
  /\ target_zoom = 15
  /\ \E t \in Threads :
       /\ pc[t] = "done"
       /\ kind[t] = "get_quick"
       /\ ttime[t] = 0
       /\ ret[t] \in present

\* C12: a policy call that finds connected false calls get_quick(row, col,
\* maptype, zoom) with the default min_zoom and priority, whatever the flight
\* values, and getattr takes the result of that call.
C12_DisconnectedQuick ==
  [][/\ (pc[FuseThread] = "p_conn" /\ pc'[FuseThread] # "p_conn" /\ ~connected) =>
          /\ call' = CallQuick
          /\ kind'[FuseThread] = "get_quick"
          /\ pc'[FuseThread] = "q_walk"
          /\ z'[FuseThread] = ReqZoom
          /\ minz'[FuseThread] = ReqZoom - 3
     /\ (caller = "getattr" /\ caller' = "none" /\ pc[FuseThread] = "done") =>
          /\ path_dict' = ret[FuseThread]
          /\ opened' = <<"artifact", ret[FuseThread]>>]_vars

\* C12 witness: after a timeout the policy got its result from get_quick while
\* the stale flight values are those of a fast aircraft facing the near tile.
C12_Witness ==
  /\ ~connected
  /\ fpc = "recv"
  /\ spd = 450 /\ alt = 3000 /\ hdg = 0 /\ lat = 50 /\ lon = 10
  /\ tile = Home
  /\ caller = "getattr"
  /\ call = CallQuick
  /\ pc[FuseThread] = "done"
  /\ ret[FuseThread] \in present

\* the strategy table as stated: the first row whose guard and facing column
\* match, the far row "spd > 200" only for distance > near_range
StatedCall(v, a, near, facing, zoom) ==
  IF v > 400 /\ near /\ a < 4500
    THEN (IF facing THEN CallDeadline(zoom - 2, 35, 5) ELSE CallQuick)
  ELSE IF v > 200 /\ near /\ a < 4500
    THEN (IF facing THEN CallDeadline(zoom - 1, 100, 5) ELSE CallQuick)
  ELSE IF v > 200 /\ ~near
    THEN (IF facing THEN CallDeadline(zoom - 2, 35, 5) ELSE CallQuick)
  ELSE IF near /\ facing THEN CallDeadline(0, 400, 2)
  ELSE IF near /\ v < 2 THEN CallDeadline(0, 800, 5)
  ELSE IF near THEN CallDeadline(0, 100, 5)
  ELSE IF facing THEN CallDeadline(0, 150, 5)
  ELSE CallQuick

\* the step in which _fetch_dds, having found a connection, makes its cache
\* call, the flight values having stayed the same while it read them
PolicyCallStep ==
  /\ pc[FuseThread] \in PolicyPcs
  /\ pc'[FuseThread] \notin PolicyPcs
  /\ ~torn

\* the tile of the published position
FlightTile == <<XTile(lon, ReqZoom), YTile(lat, ReqZoom)>>

\* C13: with a connection the policy makes the one cache call of the first
\* matching row of the strategy table.
C13_StrategyTable ==
  [][PolicyCallStep =>
       call' = StatedCall(spd, alt,
                 IsNear(tile[1], tile[2], FlightTile[1], FlightTile[2], ReqZoom),
                 FacingTile(hdg, tile[1], tile[2], FlightTile[1], FlightTile[2]),
                 ReqZoom)]_vars

\* C14: stationary on the apron (hdg 90, spd < 2) and asked for the tile the
\* aircraft is on, the policy finds the tile not facing and calls
\* get_deadline(zoom, deadline=8) with the default priority.
C14_StationaryOnApron ==
  [][(/\ PolicyCallStep
      /\ hdg = 90 /\ spd < 2 /\ spd # Placeholder
      /\ tile = FlightTile) =>
       /\ ~facing_tile
       /\ call' = CallDeadline(0, 800, 5)]_vars

\* C15: a path with maptype ZL never causes a cache or renderer call, never
\* gets a Path Map entry, and is served from the underlying filesystem.
C15_ZLNeverFetched ==
  maptype = "ZL" =>
    /\ call = NoCall
    /\ pc[FuseThread] = "idle"
    /\ path_dict = NoFile
    /\ active = {}
    /\ SumOver(Files, quickCalls) = 0
    /\ opened[1] \in {"none", "full_path"}

\* C16: open on a path with a Path Map entry opens that entry and makes no
\* policy or cache call; without an entry it calls get_quick and records the
\* result; and the entry is what the last getattr stored.
C16_OpenUsesPathMap ==
  [][/\ (/\ maptype # "ZL" /\ caller = "none" /\ caller' # "getattr"
          /\ budget'[FuseThread] < budget[FuseThread]) =>
            IF path_dict # NoFile
              THEN /\ opened' = <<"artifact", path_dict>>
                   /\ call' = NoCall
                   /\ pc'[FuseThread] = "idle"
                   /\ path_dict' = path_dict
              ELSE /\ call' = CallQuick
                   /\ caller' = "open"
                   /\ pc'[FuseThread] = "q_walk"
     /\ path_dict' # path_dict =>
          /\ caller \in {"getattr", "open"}
          /\ pc[FuseThread] = "done"
          /\ path_dict' = ret[FuseThread]
          /\ caller = "open" => path_dict = NoFile]_vars

\* C16 witness: getattr resolved the low-zoom artifact, the full-zoom artifact
\* arrived afterwards, and open opened the recorded one without any call.
C16_Witness ==
  /\ maptype = "BI"
  /\ path_dict = ReqZoom - 3
  /\ ReqZoom \in present
  /\ opened = <<"artifact", ReqZoom - 3>>
  /\ call = NoCall
  /\ caller = "none"
  /\ budget[FuseThread] < MountCalls - 1

\* every path is in exactly one place of chunked_list
IsPartition ==
  \A path \in 1..dsfN :
    Cardinality({kj \in (1..Len(chunks)) \X (1..dsfN) :
                   kj[2] <= Len(chunks[kj[1]]) /\ chunks[kj[1]][kj[2]] = path}) = 1

\* C17: DSF.open starts at most 8 workers, and every path is assigned to
\* exactly one of them.
C17_EightWorkers ==
  /\ Len(wstat) <= num_chunks
  /\ dsfPc \in {"spawn", "join", "returned"} => IsPartition

\* C18: when DSF.open returns every worker has terminated and get_quick has
\* been called and has returned for every path whose file was absent or empty.
C18_AllFetchedOnReturn ==
  dsfPc = "returned" =>
    /\ \A w \in 1..Len(wstat) : wstat[w] # "running"
    /\ Len(wstat) = Len(chunks)
    /\ needs \subseteq fetched

\* a step in which get_deadline returns gives the target artifact, which
\* exists and, after waiting, has left the Active Set with the deadline not
\* reached, or gives what its get_quick call returns; and a get_deadline that
\* leaves its loop otherwise calls get_quick(zoom, zoom-3)
DeadlineReturnRule(t) ==
  /\ (pc[t] # "done" /\ pc'[t] = "done") =>
       IF pc[t] \in {"d_exists", "d_exit"}
         THEN /\ ret'[t] = cf[t]
              /\ cf[t] \in present
              /\ pc[t] = "d_exit" => (cf[t] \notin active /\ ~reached[t])
         ELSE pc[t] \in {"q_walk", "q_avg", "q_guard", "q_store"}
  /\ (pc[t] = "d_exit" /\ pc'[t] # "d_exit" /\ pc'[t] # "done") =>
       /\ pc'[t] = "q_walk"
       /\ z'[t] = ReqZoom
       /\ minz'[t] = ReqZoom - 3

\* C19: get_deadline returns its target artifact only if the artifact exists
\* and, after waiting, the key has left the Active Set and the deadline was
\* not reached; otherwise it calls get_quick(zoom, min_zoom or zoom-3) and
\* returns that result; it always returns a path and never fails.
C19_DeadlineResult ==
  [][\A t \in Threads :
       kind[t] = "get_deadline" =>
         (pc'[t] # "raised" /\ DeadlineReturnRule(t))]_vars

\* a step of the controller's in-place update does not lose an update
NoLostUpdate(t) ==
  (pc[t] = "q_store" /\ pc'[t] # pc[t]) =>
     target_zoom' = target_zoom + delta[t]

\* C20: every Active Set membership check of get_quick, get_best and
\* get_deadline and every read or update of the Tile Time Window and of
\* Target Zoom, that of get_target included, is made by a thread that holds
\* the tile condition lock, and no update of Target Zoom by the controller is
\* lost.
C20_LockProtectsState ==
  [][\A t \in Threads :
       /\ (pc[t] \in {"q_miss", "b_active", "d_loop", "q_ctl", "q_avg",
                       "q_guard", "q_load", "q_store"}
              /\ pc'[t] # pc[t]) => lock = t
       /\ (pc[t] = "idle" /\ kind'[t] = "get_target") => lock = t
       /\ NoLostUpdate(t)]_vars

\* a thread at the call of a renderer operation, or inside get_quick_tile or
\* get_tile, which block until the renderer is done
AtRenderer(t) ==
  pc[t] \in {"q_emit", "q_render", "b_call", "b_render", "d_call", "g_call"}

\* C21: no thread holds the tile condition lock while it calls or is inside a
\* renderer operation (get_quick_tile, get_tile, get_background_tile).
C21_NoLockInRenderer == \A t \in Threads : AtRenderer(t) => lock # t

\* a thread is inside get_quick_tile while another thread, in get_deadline's
\* loop, holds the lock
C21_Witness ==
  \E t, u \in Threads :
    /\ pc[t] = "q_render"
    /\ kind[u] = "get_deadline" /\ pc[u] = "d_loop" /\ lock = u

\* C22: connected is set only after the values of a packet are published: a
\* policy call that found connected true never reads the placeholder -1 as
\* latitude, longitude, heading or speed.
C22_ConnectedAfterPublish ==
  [][pc'[FuseThread] # pc[FuseThread] =>
       /\ pc[FuseThread] = "p_lat" => lat # Placeholder
       /\ pc[FuseThread] = "p_lon" => lon # Placeholder
       /\ pc[FuseThread] \in {"p_n1", "p_n2", "p_s", "p_e", "p_w"} =>
            hdg # Placeholder
       /\ pc[FuseThread] \in {"p_v1", "p_v2", "p_v3", "p_v4"} =>
            spd # Placeholder]_vars

\* C23: every tile_condition.wait of the cache is made by a thread that holds
\* the condition's lock: the wait of get_deadline's loop, and the wait of
\* get_quick on an active min_zoom key, which blocks and does not fail.
C23_WaitHoldsLock ==
  [][\A t \in Threads :
       /\ (pc[t] = "d_loop" /\ pc'[t] = "d_wait") => lock = t
       /\ (pc[t] = "q_wait" /\ pc'[t] # "q_wait") =>
            (lock = t /\ pc'[t] # "raised")]_vars

\* C24: DSF.open does not raise, whatever the number n >= 0 of deduplicated
\* dds paths, and for every n it goes on to start and join its workers.
C24_OpenCompletes == dsfPc # "raised"

====
